---- MODULE Spec2Model ----
(***************************************************************************)
(* A model of the workspace-state engine of meta_mcp (src/src/main.rs):    *)
(* the dependency graph (build_dependency_graph, analyze_project_impact,   *)
(* topological_sort) and the snapshot store with the batch executor        *)
(* (tool_snapshot_create, tool_snapshot_restore, tool_batch_execute).      *)
(***************************************************************************)
EXTENDS Integers, Sequences, FiniteSets, TLC

(***************************************************************************)
(* Bounds of the model.                                                    *)
(***************************************************************************)
\* longest project list handed to build_dependency_graph
MaxProjects == 3
\* most depends_on entries in one project list, all projects together
MaxEdges == 3

\* The names a project or a depends_on entry can carry.  A name that no
\* project of the list carries is a dangling (or unknown) name.
Names == {"a", "b", "c"}
\* The one tag the tag filter can ask for.
Tag == "t"
None == "None"
\* usize::MAX, the value a usize counter wraps to when 0 is decremented in a
\* build without overflow checks.  It stands here as the largest integer TLC
\* represents: like the real one, no run of decrements brings it back to 0.
UsizeMax == 2147483647

VARIABLES
    \* ---- dependency graph ----
    g_projects,             \* the &[ExtendedProjectInfo] handed to build_dependency_graph
    graph,                  \* the DependencyGraph: nodes, edges, reverse_edges
    g_pc,                   \* where the graph operations stand
    project_name,           \* analyze_project_impact: the name analysed
    direct_dependents,      \* analyze_project_impact: Vec
    transitive_dependents,  \* analyze_project_impact: Vec
    visited,                \* analyze_project_impact: HashSet
    queue,                  \* analyze_project_impact: VecDeque of (name, depth)
    total_affected,         \* analyze_project_impact: the returned count
    tag_filter,             \* topological_sort: Option<&str>
    in_degree,              \* topological_sort: HashMap<&str, usize>
    ts_queue,               \* topological_sort: VecDeque
    result,                 \* topological_sort: Vec
    \* ---- workspace, snapshot store, batch executor ----
    w_projects,             \* what load_projects returns: the projects of the manifest
    repos,                  \* the working copy under each project path
    store,                  \* .meta-snapshots: file name -> snapshot written there
    now,                    \* chrono::Utc::now().timestamp()
    b_pc,                   \* where tool_batch_execute stands
    atomic,                 \* tool_batch_execute: the "atomic" argument
    b_tag,                  \* tool_batch_execute: the "tag" argument
    filtered,               \* tool_batch_execute: the filtered project list
    b_idx,                  \* tool_batch_execute: position of the for loop in filtered
    results,                \* tool_batch_execute: Vec of per-project outcomes
    has_failure,            \* tool_batch_execute: bool
    snapshot_name,          \* tool_batch_execute: Option<String>
    b_ret,                  \* tool_batch_execute: the Result it returned
    r_pc,                   \* where tool_snapshot_restore stands
    r_force,                \* tool_snapshot_restore: the "force" argument
    r_projects,             \* tool_snapshot_restore: the "projects" array of the snapshot
    r_idx,                  \* tool_snapshot_restore: position of the for loop in it
    restored,               \* tool_snapshot_restore: Vec of project names
    failed,                 \* tool_snapshot_restore: Vec of {project, error}
    r_ret,                  \* tool_snapshot_restore: the Result it returned
    r_before,               \* history: the working copies when the restore was called
    c_ret,                  \* tool_snapshot_create: the Result it returned to a caller
    trace,                  \* history: the snapshot, command and restore calls made
    \* ---- query ----
    query_str,              \* tool_query_repos: the "query" argument
    q_conjuncts,            \* the conjuncts the query string was written from
    q_pc,                   \* where tool_query_repos stands
    conditions,             \* tool_query_repos: what parse_query returned
    q_idx,                  \* tool_query_repos: position of the for loop in the projects
    matching,               \* tool_query_repos: Vec of the repo states that match
    q_ret,                  \* tool_query_repos: the Result it returned
    \* ---- server: requests, tools/call, multi-commit ----
    meta_dir,               \* McpServer.meta_dir: Option<PathBuf>
    request,                \* handle_request: the JsonRpcRequest it was given
    response,               \* handle_request: the JsonRpcResponse it returned
    h_pc,                   \* where handle_request stands
    tool_result,            \* handle_call_tool: the Result of the tool it dispatched to
    m_args,                 \* tool_git_multi_commit: the arguments object
    m_pc,                   \* where tool_git_multi_commit stands
    m_idx,                  \* tool_git_multi_commit: position of the for loop in commits
    m_results,              \* tool_git_multi_commit: Vec<CommitResult>
    m_committed             \* history: the paths git commit was executed in

gvars == <<g_projects, graph, g_pc, project_name, direct_dependents,
           transitive_dependents, visited, queue, total_affected,
           tag_filter, in_degree, ts_queue, result>>

bvars == <<w_projects, repos, store, now, b_pc, atomic, b_tag, filtered, b_idx,
           results, has_failure, snapshot_name, b_ret, trace>>

rvars == <<r_pc, r_force, r_projects, r_idx, restored, failed, r_ret, r_before>>

svars == <<c_ret>>

qvars == <<query_str, q_conjuncts, q_pc, conditions, q_idx, matching, q_ret>>

mvars == <<meta_dir, request, response, h_pc, tool_result, m_args, m_pc, m_idx,
           m_results, m_committed>>

vars == <<gvars, bvars, rvars, qvars, svars, mvars>>

\* Option<T>: None, and Some(value)
NoValue == [some |-> FALSE]
Some(value) == [some |-> TRUE, value |-> value]

\* a server that has received no request, outside any meta repository
ServerIdle ==
    /\ meta_dir = NoValue
    /\ request = NoValue
    /\ response = NoValue
    /\ h_pc = "idle"
    /\ tool_result = NoValue
    /\ m_args = <<>>
    /\ m_pc = "idle"
    /\ m_idx = 1
    /\ m_results = <<>>
    /\ m_committed = <<>>

(***************************************************************************)
(* Helpers on sequences and maps (HashMap as a function on its key set).   *)
(***************************************************************************)
Range(s) == {s[i] : i \in 1..Len(s)}

SeqsUpTo(S, n) == UNION {[1..k -> S] : k \in 0..n}

\* HashMap::insert: the last value inserted under a key wins
Insert(m, k, v) == [x \in (DOMAIN m) \cup {k} |-> IF x = k THEN v ELSE m[x]]

\* HashMap::get(k).unwrap_or(empty list)
GetOrEmpty(m, k) == IF k \in DOMAIN m THEN m[k] ELSE <<>>

EmptyMap == [x \in {} |-> 0]

\* number of indices of s holding x
Occurrences(s, x) == Cardinality({i \in 1..Len(s) : s[i] = x})

\* all orders in which the elements of the finite set S can be iterated
Orders(S) == {s \in [1..Cardinality(S) -> S] : Range(s) = S}

(***************************************************************************)
(* build_dependency_graph                                                  *)
(***************************************************************************)
ExtendedProjectInfo(tagsets, maxdeps) ==
    [name : Names, tags : tagsets, depends_on : SeqsUpTo(Names, maxdeps)]

\* the project lists of exactly k projects with at most e depends_on entries
RECURSIVE ProjectLists(_, _, _)
ProjectLists(tagsets, k, e) ==
    IF k = 0 THEN {<<>>}
    ELSE UNION {{<<p>> \o rest : rest \in ProjectLists(tagsets, k - 1, e - Len(p.depends_on))} :
                p \in ExtendedProjectInfo(tagsets, e)}

EmptyGraph == [nodes |-> EmptyMap, edges |-> EmptyMap, reverse_edges |-> EmptyMap]

\* for dep in &project.depends_on { reverse_edges.entry(dep).or_default().push(name) }
RECURSIVE PushReverse(_, _, _)
PushReverse(rev, deps, name) ==
    IF deps = <<>> THEN rev
    ELSE PushReverse(Insert(rev, Head(deps), Append(GetOrEmpty(rev, Head(deps)), name)),
                     Tail(deps), name)

\* the body of the loop over projects
AddProject(g, project) ==
    [nodes         |-> Insert(g.nodes, project.name, project),
     edges         |-> Insert(g.edges, project.name, project.depends_on),
     reverse_edges |-> PushReverse(g.reverse_edges, project.depends_on, project.name)]

RECURSIVE AddProjects(_, _)
AddProjects(g, projects) ==
    IF projects = <<>> THEN g
    ELSE AddProjects(AddProject(g, Head(projects)), Tail(projects))

build_dependency_graph(projects) == AddProjects(EmptyGraph, projects)

(***************************************************************************)
(* The workspace before any tool call, with no project in the manifest.    *)
(***************************************************************************)
BatchIdle ==
    /\ w_projects = <<>>
    /\ repos = EmptyMap
    /\ store = EmptyMap
    /\ now = 0
    /\ b_pc = "idle"
    /\ atomic = FALSE
    /\ b_tag = None
    /\ filtered = <<>>
    /\ b_idx = 1
    /\ results = <<>>
    /\ has_failure = FALSE
    /\ snapshot_name = None
    /\ b_ret = None
    /\ trace = <<>>
    /\ r_pc = "idle"
    /\ r_force = FALSE
    /\ r_projects = <<>>
    /\ r_idx = 1
    /\ restored = <<>>
    /\ failed = <<>>
    /\ r_ret = None
    /\ r_before = EmptyMap
    /\ c_ret = None
    /\ query_str = <<>>
    /\ q_conjuncts = <<>>
    /\ q_pc = "idle"
    /\ conditions = <<>>
    /\ q_idx = 1
    /\ matching = <<>>
    /\ q_ret = None

(***************************************************************************)
(* Initial state: a project list, nothing built or run yet.                *)
(***************************************************************************)
InitGraph ==
    /\ g_projects \in UNION {ProjectLists({{}}, k, MaxEdges) : k \in 0..MaxProjects}
    /\ graph = EmptyGraph
    /\ g_pc = "input"
    /\ project_name = None
    /\ direct_dependents = <<>>
    /\ transitive_dependents = <<>>
    /\ visited = {}
    /\ queue = <<>>
    /\ total_affected = 0
    /\ tag_filter = None
    /\ in_degree = EmptyMap
    /\ ts_queue = <<>>
    /\ result = <<>>
    /\ BatchIdle
    /\ ServerIdle

BuildGraph ==
    /\ g_pc = "input"
    /\ graph' = build_dependency_graph(g_projects)
    /\ g_pc' = "built"
    /\ UNCHANGED <<g_projects, project_name, direct_dependents, transitive_dependents,
                   visited, queue, total_affected, tag_filter, in_degree, ts_queue, result>>
    /\ UNCHANGED <<bvars, rvars, qvars, svars, mvars>>

(***************************************************************************)
(* analyze_project_impact                                                  *)
(***************************************************************************)
\* if depth > 1 { transitive_dependents.push(current) }
IsTransitive(depth) == depth > 1

\* if visited.contains(&current) { continue; }
SkipVisited(vis, current) == current \in vis

\* if !visited.contains(dep) { queue.push_back((dep, depth + 1)) }
ShouldEnqueue(vis, dep) == dep \notin vis

\* queue.push_back((dep, depth)) for every dep of deps that passes the test
RECURSIVE PushDependents(_, _, _, _)
PushDependents(q, deps, vis, depth) ==
    IF deps = <<>> THEN q
    ELSE PushDependents(IF ShouldEnqueue(vis, Head(deps))
                            THEN Append(q, <<Head(deps), depth>>) ELSE q,
                        Tail(deps), vis, depth)

\* while let Some(..) = queue.pop_front(): what is left of the queue
PopFrontKeep(q) == q
PopFront(q) == Tail(q)

\* reverse_edges.get(name): the list under the key, nothing when it is absent
DirectDependents(g, name) == GetOrEmpty(g.reverse_edges, name)

\* "total_affected": visited.len()
TotalAffectedWithOrigin(vis, direct, transitive) == Cardinality(vis) + 1
TotalAffectedOfLists(vis, direct, transitive) == Len(direct) + Len(transitive)
TotalAffected(vis, direct, transitive) == Cardinality(vis)

\* the locals after the declarations and the "Get direct dependents" block
BfsStart(g, name) ==
    [direct_dependents     |-> DirectDependents(g, name),
     transitive_dependents |-> <<>>,
     visited               |-> {},
     queue                 |-> [i \in 1..Len(DirectDependents(g, name)) |->
                                   <<DirectDependents(g, name)[i], 1>>]]

\* one iteration of "while let Some((current, depth)) = queue.pop_front()"
BfsIter(g, st) ==
    LET current == Head(st.queue)[1]
        depth   == Head(st.queue)[2]
    IN  IF SkipVisited(st.visited, current)
        THEN [st EXCEPT !.queue = PopFront(st.queue)]
        ELSE [st EXCEPT
                !.visited = st.visited \cup {current},
                !.transitive_dependents =
                    IF IsTransitive(depth) THEN Append(st.transitive_dependents, current)
                    ELSE st.transitive_dependents,
                !.queue = PushDependents(PopFront(st.queue),
                                         GetOrEmpty(g.reverse_edges, current),
                                         st.visited \cup {current}, depth + 1)]

\* the whole loop, then the returned value
RECURSIVE BfsRun(_, _)
BfsRun(g, st) == IF st.queue = <<>> THEN st ELSE BfsRun(g, BfsIter(g, st))

analyze_project_impact(name, g) ==
    LET st == BfsRun(g, BfsStart(g, name))
    IN  [project               |-> name,
         direct_dependents     |-> st.direct_dependents,
         transitive_dependents |-> st.transitive_dependents,
         total_affected        |-> TotalAffected(st.visited, st.direct_dependents,
                                                 st.transitive_dependents)]

BfsState == [direct_dependents     |-> direct_dependents,
             transitive_dependents |-> transitive_dependents,
             visited               |-> visited,
             queue                 |-> queue]

ImpactStart ==
    /\ g_pc = "built"
    /\ \E name \in Names :
        /\ project_name' = name
        /\ direct_dependents' = BfsStart(graph, name).direct_dependents
        /\ queue' = BfsStart(graph, name).queue
        /\ transitive_dependents' = BfsStart(graph, name).transitive_dependents
        /\ visited' = BfsStart(graph, name).visited
    /\ g_pc' = "bfs"
    /\ UNCHANGED <<g_projects, graph, total_affected, tag_filter, in_degree, ts_queue, result>>
    /\ UNCHANGED <<bvars, rvars, qvars, svars, mvars>>

BfsStep ==
    /\ g_pc = "bfs"
    /\ queue # <<>>
    /\ visited' = BfsIter(graph, BfsState).visited
    /\ transitive_dependents' = BfsIter(graph, BfsState).transitive_dependents
    /\ queue' = BfsIter(graph, BfsState).queue
    /\ UNCHANGED <<g_projects, graph, g_pc, project_name, direct_dependents, total_affected,
                   tag_filter, in_degree, ts_queue, result>>
    /\ UNCHANGED <<bvars, rvars, qvars, svars, mvars>>

\* the queue is empty: build the returned value
ImpactReturn ==
    /\ g_pc = "bfs"
    /\ queue = <<>>
    /\ total_affected' = TotalAffected(visited, direct_dependents, transitive_dependents)
    /\ g_pc' = "impact_done"
    /\ UNCHANGED <<g_projects, graph, project_name, direct_dependents, transitive_dependents,
                   visited, queue, tag_filter, in_degree, ts_queue, result>>
    /\ UNCHANGED <<bvars, rvars, qvars, svars, mvars>>

(***************************************************************************)
(* topological_sort                                                        *)
(***************************************************************************)
\* "Initialize in-degrees" and "Calculate in-degrees": every key of nodes
\* starts at 0 and gains 1 for each entry of any edges list that names it
InitialInDegree(g) ==
    [n \in DOMAIN g.nodes |->
        LET RECURSIVE Count(_)
            Count(keys) ==
                IF keys = {} THEN 0
                ELSE LET k == CHOOSE x \in keys : TRUE
                     IN  Occurrences(g.edges[k], n) + Count(keys \ {k})
        IN  Count(DOMAIN g.edges)]

\* "Start with nodes that have no dependencies": if degree == 0 { push_back }
IsSeed(deg, n) == deg[n] = 0

\* a filter that lets every project through
IncludeAll(g, filter, current) == TRUE

\* the tag filter: include = nodes.get(current).tags.contains(tag), or true
Include(g, filter, current) ==
    IF filter # None
    THEN IF current \in DOMAIN g.nodes THEN filter \in g.nodes[current].tags ELSE FALSE
    ELSE TRUE

\* if *degree == 0 { queue.push_back(dependent) }
BecomesReady(degree) == degree = 0

\* "*degree -= 1" for every dependent of the list that is a key of in_degree,
\* in list order.  Decrementing 0 overflows the usize: a build with overflow
\* checks (checks = TRUE) panics there, one without wraps to usize::MAX.
RECURSIVE DecrementAll(_, _, _, _)
DecrementAll(deg, q, dependents, checks) ==
    IF dependents = <<>> THEN [in_degree |-> deg, queue |-> q, panic |-> FALSE]
    ELSE LET d == Head(dependents)
         IN  IF d \notin DOMAIN deg
             THEN DecrementAll(deg, q, Tail(dependents), checks)
             ELSE IF deg[d] = 0 /\ checks
             THEN [in_degree |-> deg, queue |-> q, panic |-> TRUE]
             ELSE LET degree == IF deg[d] = 0 THEN UsizeMax ELSE deg[d] - 1
                  IN  DecrementAll([deg EXCEPT ![d] = degree],
                                   IF BecomesReady(degree) THEN Append(q, d) ELSE q,
                                   Tail(dependents), checks)

\* the declarations, the two in-degree loops and the seeding loop; a HashMap
\* is iterated in an arbitrary order, so the seeds are queued in any order
TopoStart ==
    /\ g_pc = "built"
    /\ \E filter \in {None, Tag} : tag_filter' = filter
    /\ in_degree' = InitialInDegree(graph)
    /\ \E seeds \in Orders({n \in DOMAIN graph.nodes : IsSeed(InitialInDegree(graph), n)}) :
          ts_queue' = seeds
    /\ result' = <<>>
    /\ g_pc' = "kahn"
    /\ UNCHANGED <<g_projects, graph, project_name, direct_dependents, transitive_dependents,
                   visited, queue, total_affected>>
    /\ UNCHANGED <<bvars, rvars, qvars, svars, mvars>>

\* one iteration of "while let Some(current) = queue.pop_front()"
TopoStep ==
    /\ g_pc = "kahn"
    /\ ts_queue # <<>>
    /\ \E checks \in BOOLEAN :
        LET current == Head(ts_queue)
            r == DecrementAll(in_degree, Tail(ts_queue),
                              GetOrEmpty(graph.reverse_edges, current), checks)
        IN  IF r.panic
            THEN /\ g_pc' = "panic"
                 /\ UNCHANGED <<in_degree, ts_queue, result>>
            ELSE /\ result' = IF Include(graph, tag_filter, current)
                              THEN Append(result, current) ELSE result
                 /\ in_degree' = r.in_degree
                 /\ ts_queue' = r.queue
                 /\ g_pc' = g_pc
    /\ UNCHANGED <<g_projects, graph, project_name, direct_dependents, transitive_dependents,
                   visited, queue, total_affected, tag_filter>>
    /\ UNCHANGED <<bvars, rvars, qvars, svars, mvars>>

\* the queue is empty: Ok(result)
TopoReturn ==
    /\ g_pc = "kahn"
    /\ ts_queue = <<>>
    /\ g_pc' = "topo_done"
    /\ UNCHANGED <<g_projects, graph, project_name, direct_dependents, transitive_dependents,
                   visited, queue, total_affected, tag_filter, in_degree, ts_queue, result>>
    /\ UNCHANGED <<bvars, rvars, qvars, svars, mvars>>

NextGraph ==
    \/ BuildGraph
    \/ ImpactStart \/ BfsStep \/ ImpactReturn
    \/ TopoStart \/ TopoStep \/ TopoReturn

SpecGraph == InitGraph /\ [][NextGraph]_vars

\* A running call goes on: the loops of analyze_project_impact and of
\* topological_sort are sequential code that nothing suspends.
FairSpecGraph ==
    /\ SpecGraph
    /\ WF_vars(BfsStep) /\ WF_vars(ImpactReturn)
    /\ WF_vars(TopoStep) /\ WF_vars(TopoReturn)

(***************************************************************************)
(* Notions the claims about the graph are stated with.                     *)
(***************************************************************************)
UniqueNames(projects) ==
    \A i, j \in 1..Len(projects) : projects[i].name = projects[j].name => i = j

\* A lists B in depends_on
Lists(projects, A, B) ==
    \E i \in 1..Len(projects) : projects[i].name = A /\ B \in Range(projects[i].depends_on)

\* the names reached from the set S by one or more steps of the relation next(_)
RECURSIVE ReachedFrom(_, _, _)
ReachedFrom(next(_), frontier, seen) ==
    LET new == UNION {next(n) : n \in frontier} \ seen
    IN  IF new = {} THEN seen ELSE ReachedFrom(next, new, seen \cup new)

\* the names B with a chain A lists .. lists B, of one or more links
DependenciesOf(projects, A) ==
    LET next(n) == {B \in Names : Lists(projects, n, B)}
    IN  ReachedFrom(next, {A}, {})

Acyclic(projects) == \A A \in Names : A \notin DependenciesOf(projects, A)

\* the names reached from X by one or more reverse-dependency edges
ReverseReachable(g, X) ==
    LET next(n) == Range(GetOrEmpty(g.reverse_edges, n))
    IN  ReachedFrom(next, {X}, {})

IndexOf(s, x) == CHOOSE i \in 1..Len(s) : s[i] = x

NoRepeats(s) == \A i, j \in 1..Len(s) : s[i] = s[j] => i = j

\* the sequence s with its entries put in the order f
Permuted(s, f) == [i \in 1..Len(s) |-> s[f[i]]]

SeqOrders(s) == {Permuted(s, f) : f \in Orders(1..Len(s))}

\* the project lists got from ps by putting the entries of each depends_on
\* list in another order
RECURSIVE DepReorderings(_)
DepReorderings(ps) ==
    IF ps = <<>> THEN {<<>>}
    ELSE {<<[Head(ps) EXCEPT !.depends_on = d]>> \o rest :
            d \in SeqOrders(Head(ps).depends_on), rest \in DepReorderings(Tail(ps))}

\* the project lists got from projects by putting its entries, and the
\* entries of each depends_on list, in another order
Reorderings(projects) == UNION {DepReorderings(q) : q \in SeqOrders(projects)}

(***************************************************************************)
(* Claims about the dependency graph.                                      *)
(***************************************************************************)

\* C5: with unique names, no cycle and no tag filter, whenever A lists B in
\* depends_on and both are in the result of topological_sort, B stands at a
\* smaller index than A.
TopologicalValidity ==
    (g_pc = "topo_done" /\ tag_filter = None
        /\ UniqueNames(g_projects) /\ Acyclic(g_projects))
    => \A A, B \in Names :
          (Lists(g_projects, A, B) /\ A \in Range(result) /\ B \in Range(result))
          => IndexOf(result, B) < IndexOf(result, A)

\* The case C5 speaks of: a finished sort whose result holds both ends of a
\* dependency.
BothEndsEmitted ==
    /\ g_pc = "topo_done" /\ tag_filter = None
    /\ UniqueNames(g_projects) /\ Acyclic(g_projects)
    /\ \E A, B \in Names :
          Lists(g_projects, A, B) /\ A \in Range(result) /\ B \in Range(result)

\* C6: for an acyclic graph of uniquely named projects, topological_sort with
\* no tag filter emits every project of nodes exactly once.
TopoEmitsEveryProjectOnce ==
    (g_pc = "topo_done" /\ tag_filter = None
        /\ UniqueNames(g_projects) /\ Acyclic(g_projects))
    => \A n \in DOMAIN graph.nodes : Occurrences(result, n) = 1

TotalAffectedIsReachableCount ==
    g_pc = "impact_done" =>
        /\ total_affected = Cardinality(ReverseReachable(graph, project_name))
        /\ \A q \in Reorderings(g_projects) :
              analyze_project_impact(project_name, build_dependency_graph(q)).total_affected
                  = total_affected

\* C8's case: an analysis that reached a dependent of a dependent, on a list
\* that has another order.
ReachedTransitive ==
    /\ g_pc = "impact_done"
    /\ total_affected >= 2
    /\ transitive_dependents # <<>>
    /\ Reorderings(g_projects) # {g_projects}

\* C9: transitive_dependents holds no member of direct_dependents, not the
\* name analysed, and no name twice.
TransitiveExcludesDirectAndOrigin ==
    g_pc = "impact_done" =>
        /\ Range(transitive_dependents) \cap Range(direct_dependents) = {}
        /\ project_name \notin Range(transitive_dependents)
        /\ NoRepeats(transitive_dependents)

\* C10 as stated: a name that is no key of nodes, a dangling one included,
\* gets an empty impact.
UnknownNameHasEmptyImpact ==
    (g_pc = "impact_done" /\ project_name \notin DOMAIN graph.nodes)
    => /\ direct_dependents = <<>>
       /\ transitive_dependents = <<>>
       /\ total_affected = 0

\* C10, amended: a name that is no key of nodes and that no project lists in
\* its depends_on gets an empty impact.
UnlistedUnknownNameHasEmptyImpact ==
    (g_pc = "impact_done" /\ project_name \notin DOMAIN graph.nodes
        /\ \A A \in Names : ~Lists(g_projects, A, project_name))
    => /\ direct_dependents = <<>>
       /\ transitive_dependents = <<>>
       /\ total_affected = 0

\* C10's case: the analysis of a name found nowhere in a list that has
\* dependencies.
AnalysedUnlistedUnknownName ==
    /\ g_pc = "impact_done"
    /\ project_name \notin DOMAIN graph.nodes
    /\ \A A \in Names : ~Lists(g_projects, A, project_name)
    /\ DOMAIN graph.reverse_edges # {}

(***************************************************************************)
(* Working copies and the git commands the snapshot store issues.          *)
(***************************************************************************)
Branches == {"main", "dev"}
Commits == {"c1", "c2"}

\* A project path on disk: whether the directory exists and holds .git, the
\* branch checked out, the tip commit of each branch, the uncommitted changes
\* ("tracked": edits of tracked files, "untracked": new files only) and the
\* number of stash entries.
Missing == [exists |-> FALSE, git |-> FALSE, branch |-> "main",
            tips |-> [b \in Branches |-> "c1"], changes |-> "none", stashes |-> 0]

WorkingCopy(changes) == [Missing EXCEPT !.exists = TRUE, !.git = TRUE, !.changes = changes]

\* git rev-parse HEAD
HeadCommit(r) == r.tips[r.branch]

\* git status --porcelain is not empty; a failing git gives the empty string
StatusDirty(r) == r.git /\ r.changes # "none"

\* git stash push -m ..: saves the edits of tracked files when it succeeds
StashPush(r, ok) ==
    IF ok /\ r.git /\ r.changes = "tracked"
    THEN [r EXCEPT !.changes = "none", !.stashes = r.stashes + 1]
    ELSE r

\* a checkout that always lands on main
CheckoutMain(r, branch) == [r EXCEPT !.branch = "main"]

\* git checkout <branch>
Checkout(r, branch) == [r EXCEPT !.branch = branch]

\* a reset that leaves the working copy as it is
ResetKeepsTip(r, commit) == r

\* git reset --hard <commit>: moves the branch and drops the edits of tracked files
ResetHard(r, commit) ==
    [r EXCEPT !.tips[r.branch] = commit,
              !.changes = IF r.changes = "tracked" THEN "none" ELSE r.changes]

(***************************************************************************)
(* Snapshot names and files.                                               *)
(***************************************************************************)
Digit(d) == <<"0", "1", "2", "3", "4", "5", "6", "7", "8", "9">>[d + 1]

\* the decimal form of a timestamp, one character per entry
RECURSIVE Decimal(_)
Decimal(n) == IF n < 10 THEN <<Digit(n)>> ELSE Decimal(n \div 10) \o <<Digit(n % 10)>>

\* format!("atomic-batch-{}", chrono::Utc::now().timestamp())
AtomicBatchName(timestamp) ==
    <<"a", "t", "o", "m", "i", "c", "-", "b", "a", "t", "c", "h", "-">> \o Decimal(timestamp)

\* format!("{}.json", name.replace(['/', '\\', ' '], "_"))
FileName(name) ==
    [i \in 1..Len(name) |-> IF name[i] \in {"/", "\\", " "} THEN "_" ELSE name[i]]
        \o <<".", "j", "s", "o", "n">>

Ok(value) == [tag |-> "Ok", value |-> value]
Err(error) == [tag |-> "Err", error |-> error]

(***************************************************************************)
(* tool_snapshot_create                                                    *)
(***************************************************************************)
\* the loop over the projects: one entry per project whose path holds .git
RECURSIVE ProjectSnapshots(_, _)
ProjectSnapshots(projects, rs) ==
    IF projects = <<>> THEN <<>>
    ELSE LET project == Head(projects)
             r == rs[project.path]
         IN  (IF ~r.exists \/ ~r.git THEN <<>>
              ELSE <<[name     |-> project.name,
                      path     |-> project.path,
                      branch   |-> r.branch,
                      commit   |-> HeadCommit(r),
                      is_dirty |-> StatusDirty(r)]>>)
             \o ProjectSnapshots(Tail(projects), rs)

\* The call with a name, once the manifest is read.  written = FALSE: the
\* snapshot directory or file could not be written and the call returns Err.
tool_snapshot_create(name, description, projects, rs, st, created_at, written) ==
    LET snapshot == [name        |-> name,
                     created_at  |-> created_at,
                     description |-> description,
                     projects    |-> ProjectSnapshots(projects, rs)]
    IN  IF written
        THEN [store |-> Insert(st, FileName(name), snapshot),
              ret   |-> Ok([status |-> "created", name |-> name,
                            projects_count |-> Len(snapshot.projects)])]
        ELSE [store |-> st, ret |-> Err("io")]

(***************************************************************************)
(* tool_snapshot_restore                                                   *)
(***************************************************************************)
\* what git does to one project during a restore: whether the stash push
\* succeeds, and which of the checkout and the reset fails, if any (the reset
\* is not run after a failed checkout)
GitOutcomes == [stash_ok : BOOLEAN, fails : {"none", "checkout", "reset"}]

\* a restore that refuses no working copy
RefusesNothing(dirty, force) == FALSE

\* "Check if dirty and not force": if !status.is_empty() && !force
RefusesDirty(dirty, force) == dirty /\ ~force

\* the body of the loop for one snapshot entry: the working copy afterwards
\* and the error recorded ("" when the project is restored)
RestoreProject(r, entry, force, git) ==
    IF ~r.exists THEN [repo |-> r, error |-> "Path does not exist"]
    ELSE IF RefusesDirty(StatusDirty(r), force)
    THEN [repo |-> r, error |-> "Has uncommitted changes (use force=true to override)"]
    ELSE LET stashed == IF StatusDirty(r) /\ force
                        THEN StashPush(r, git.stash_ok) ELSE r
         IN  IF ~stashed.git \/ git.fails = "checkout"
             THEN [repo |-> stashed, error |-> "Failed to checkout"]
             ELSE IF git.fails = "reset"
             THEN [repo |-> Checkout(stashed, entry.branch), error |-> "Failed to reset"]
             ELSE [repo  |-> ResetHard(Checkout(stashed, entry.branch), entry.commit),
                   error |-> ""]

\* a status that never reports a failure
RestoreStatusSuccess(failures) == "success"

\* "status": if failed.is_empty() { "success" } else { "partial" }
RestoreStatus(failures) == IF failures = <<>> THEN "success" ELSE "partial"

\* "Load snapshot": the projects array of the file of that name.  readable =
\* FALSE: the file cannot be read or parsed.
LoadSnapshot(name, st, readable) ==
    IF FileName(name) \notin DOMAIN st THEN Err("Snapshot not found")
    ELSE IF ~readable THEN Err("io")
    ELSE Ok(st[FileName(name)].projects)

\* the call, up to the loop: an Err of the load is returned at once
RestoreBegin(name, force, readable) ==
    /\ r_force' = force
    /\ restored' = <<>>
    /\ failed' = <<>>
    /\ r_idx' = 1
    /\ r_before' = repos
    /\ trace' = Append(trace, [call |-> "snapshot_restore", name |-> name, force |-> force])
    /\ IF LoadSnapshot(name, store, readable).tag = "Err"
       THEN /\ r_ret' = LoadSnapshot(name, store, readable)
            /\ r_projects' = <<>>
            /\ r_pc' = "done"
       ELSE /\ r_ret' = None
            /\ r_projects' = LoadSnapshot(name, store, readable).value
            /\ r_pc' = "loop"

\* one iteration of "for project in projects"
RestoreStep ==
    /\ r_pc = "loop"
    /\ r_idx <= Len(r_projects)
    /\ \E git \in GitOutcomes :
        LET entry == r_projects[r_idx]
            done  == RestoreProject(repos[entry.path], entry, r_force, git)
        IN  /\ repos' = [repos EXCEPT ![entry.path] = done.repo]
            /\ restored' = IF done.error = "" THEN Append(restored, entry.name) ELSE restored
            /\ failed' = IF done.error = "" THEN failed
                         ELSE Append(failed, [project |-> entry.name, error |-> done.error])
    /\ r_idx' = r_idx + 1
    /\ UNCHANGED <<r_pc, r_force, r_projects, r_ret, r_before>>
    /\ UNCHANGED <<w_projects, store, now, b_pc, atomic, b_tag, filtered, b_idx,
                   results, has_failure, snapshot_name, b_ret, trace>>
    /\ UNCHANGED <<gvars, qvars, svars, mvars>>

\* after the loop: the returned value
RestoreReturn ==
    /\ r_pc = "loop"
    /\ r_idx > Len(r_projects)
    /\ r_ret' = Ok([status         |-> RestoreStatus(failed),
                    restored       |-> restored,
                    failed         |-> failed,
                    restored_count |-> Len(restored),
                    failed_count   |-> Len(failed)])
    /\ r_pc' = "done"
    /\ UNCHANGED <<r_force, r_projects, r_idx, restored, failed, r_before>>
    /\ UNCHANGED bvars
    /\ UNCHANGED <<gvars, qvars, svars, mvars>>

(***************************************************************************)
(* tool_batch_execute                                                      *)
(***************************************************************************)
\* "Filter by tag"
Filtered(projects, tag) ==
    IF tag # None THEN SelectSeq(projects, LAMBDA p : tag \in p.tags) ELSE projects

\* what running "sh -c command" in a project can give: exit status 0, another
\* exit status, or no process at all
CommandOutcomes == {"success", "failure", "spawn_error"}

\* what the command does to the working copy it runs in: nothing, or a new
\* commit on the branch checked out
CommandEffects == {"none", "commit"}

AfterCommand(r, effect) ==
    IF ~r.git \/ effect = "none" THEN r ELSE [r EXCEPT !.tips[r.branch] = "c2"]

\* the entry pushed to results for a project whose path is missing
PathMissing(project) ==
    [project |-> project.name, success |-> FALSE, error |-> "Path does not exist"]

\* the entry pushed to results for a project the command was started in
CommandResult(project, outcome) ==
    IF outcome = "spawn_error"
    THEN [project |-> project.name, success |-> FALSE, error |-> "spawn"]
    ELSE [project |-> project.name, success |-> (outcome = "success"),
          stdout |-> "", stderr |-> ""]

\* a loop that breaks on a failure in either mode
StopOnFailureAlways(is_atomic, failure) == failure

\* if atomic && has_failure { break; }
StopOnFailure(is_atomic, failure) == is_atomic /\ failure

\* a rollback after every atomic batch
ShouldRollbackAlways(is_atomic, failure) == is_atomic

\* if atomic && has_failure { .. restore .. }
ShouldRollback(is_atomic, failure) == is_atomic /\ failure

\* the arguments are read, the manifest is loaded and filtered, and with
\* atomic the pre-execution snapshot is attempted, its result dropped
BatchStart ==
    /\ b_pc = "idle"
    /\ \E is_atomic \in BOOLEAN, tag \in {None, Tag}, written \in BOOLEAN :
        /\ atomic' = is_atomic
        /\ b_tag' = tag
        /\ filtered' = Filtered(w_projects, tag)
        /\ IF is_atomic
           THEN /\ snapshot_name' = AtomicBatchName(now)
                /\ store' = tool_snapshot_create(AtomicBatchName(now),
                                "Automatic snapshot before atomic batch execution",
                                w_projects, repos, store, now, written).store
                /\ trace' = Append(trace, [call |-> "snapshot_create",
                                           name |-> AtomicBatchName(now)])
           ELSE /\ snapshot_name' = None
                /\ written
                /\ UNCHANGED <<store, trace>>
    /\ results' = <<>>
    /\ has_failure' = FALSE
    /\ b_idx' = 1
    /\ b_pc' = "loop"
    /\ UNCHANGED <<w_projects, repos, now, b_ret>>
    /\ UNCHANGED <<gvars, rvars, qvars, svars, mvars>>

\* one iteration of "for project in &filtered"
BatchIter ==
    /\ b_pc = "loop"
    /\ b_idx <= Len(filtered)
    /\ LET project == filtered[b_idx]
       IN  IF ~repos[project.path].exists
           THEN \* has_failure = true; continue;
                /\ results' = Append(results, PathMissing(project))
                /\ has_failure' = TRUE
                /\ b_idx' = b_idx + 1
                /\ UNCHANGED <<repos, trace, b_pc>>
           ELSE \E outcome \in CommandOutcomes, effect \in CommandEffects :
                /\ outcome = "spawn_error" => effect = "none"
                /\ repos' = [repos EXCEPT ![project.path] = AfterCommand(@, effect)]
                /\ trace' = Append(trace, [call |-> "command", project |-> project.name])
                /\ results' = Append(results, CommandResult(project, outcome))
                /\ has_failure' = (has_failure \/ outcome # "success")
                /\ IF StopOnFailure(atomic, has_failure \/ outcome # "success")
                   THEN b_pc' = "rollback" /\ b_idx' = b_idx
                   ELSE b_pc' = b_pc /\ b_idx' = b_idx + 1
    /\ UNCHANGED <<w_projects, store, now, atomic, b_tag, filtered, snapshot_name, b_ret>>
    /\ UNCHANGED <<gvars, rvars, qvars, svars, mvars>>

\* the for loop is left: by its end, or by the break
LoopLeft == (b_pc = "loop" /\ b_idx > Len(filtered)) \/ b_pc = "rollback"

\* "Rollback if atomic and failure": tool_snapshot_restore is called with the
\* name of the pre-execution snapshot and force = true; an Err of its load is
\* returned by the ? operator
BatchRollback ==
    /\ LoopLeft
    /\ ShouldRollback(atomic, has_failure) /\ snapshot_name # None
    /\ \E readable \in BOOLEAN : RestoreBegin(snapshot_name, TRUE, readable)
    /\ IF r_pc' = "done" THEN b_pc' = "done" /\ b_ret' = r_ret'
       ELSE b_pc' = "restoring" /\ b_ret' = b_ret
    /\ UNCHANGED <<w_projects, repos, store, now, atomic, b_tag, filtered, b_idx, results,
                   has_failure, snapshot_name>>
    /\ UNCHANGED <<gvars, qvars, svars, mvars>>

\* the restore has returned Ok: rollback_result = Some(..), then the returned value
BatchReturnRolledBack ==
    /\ b_pc = "restoring"
    /\ r_pc = "done"
    /\ b_ret' = Ok([results         |-> results,
                    has_failure     |-> has_failure,
                    rolled_back     |-> TRUE,
                    rollback_result |-> r_ret.value])
    /\ b_pc' = "done"
    /\ UNCHANGED <<w_projects, repos, store, now, atomic, b_tag, filtered, b_idx, results,
                   has_failure, snapshot_name, trace>>
    /\ UNCHANGED <<gvars, rvars, qvars, svars, mvars>>

\* no rollback: rollback_result = None, then the returned value
BatchReturn ==
    /\ LoopLeft
    /\ ~(ShouldRollback(atomic, has_failure) /\ snapshot_name # None)
    /\ b_ret' = Ok([results         |-> results,
                    has_failure     |-> has_failure,
                    rolled_back     |-> FALSE,
                    rollback_result |-> None])
    /\ b_pc' = "done"
    /\ UNCHANGED <<w_projects, repos, store, now, atomic, b_tag, filtered, b_idx, results,
                   has_failure, snapshot_name, trace>>
    /\ UNCHANGED <<gvars, rvars, qvars, svars, mvars>>

(***************************************************************************)
(* The workspace a batch runs in: MaxProjects projects, each tagged or not,*)
(* each path missing or a working copy, clean or with uncommitted changes. *)
(***************************************************************************)
GraphIdle ==
    /\ g_projects = <<>>
    /\ graph = EmptyGraph
    /\ g_pc = "idle"
    /\ project_name = None
    /\ direct_dependents = <<>>
    /\ transitive_dependents = <<>>
    /\ visited = {}
    /\ queue = <<>>
    /\ total_affected = 0
    /\ tag_filter = None
    /\ in_degree = EmptyMap
    /\ ts_queue = <<>>
    /\ result = <<>>

\* no query made
QueryIdle ==
    /\ query_str = <<>>
    /\ q_conjuncts = <<>>
    /\ q_pc = "idle"
    /\ conditions = <<>>
    /\ q_idx = 1
    /\ matching = <<>>
    /\ q_ret = None

Timestamps == {42}

InitBatch ==
    /\ \E tags \in [1..MaxProjects -> SUBSET {Tag}] :
          w_projects = [i \in 1..MaxProjects |-> [name |-> i, path |-> i, tags |-> tags[i]]]
    /\ repos \in [1..MaxProjects ->
                    {Missing} \cup {WorkingCopy(c) : c \in {"none", "tracked", "untracked"}}]
    /\ store = EmptyMap
    /\ now \in Timestamps
    /\ b_pc = "idle"
    /\ atomic = FALSE
    /\ b_tag = None
    /\ filtered = <<>>
    /\ b_idx = 1
    /\ results = <<>>
    /\ has_failure = FALSE
    /\ snapshot_name = None
    /\ b_ret = None
    /\ trace = <<>>
    /\ r_pc = "idle"
    /\ r_force = FALSE
    /\ r_projects = <<>>
    /\ r_idx = 1
    /\ restored = <<>>
    /\ failed = <<>>
    /\ r_ret = None
    /\ r_before = EmptyMap
    /\ c_ret = None
    /\ QueryIdle
    /\ GraphIdle
    /\ ServerIdle

NextBatch ==
    \/ BatchStart \/ BatchIter
    \/ BatchRollback \/ RestoreStep \/ RestoreReturn \/ BatchReturnRolledBack
    \/ BatchReturn

SpecBatch == InitBatch /\ [][NextBatch]_vars

(***************************************************************************)
(* Properties of tool_batch_execute.                                       *)
(***************************************************************************)
\* the calls of one kind made so far
Calls(kind) == SelectSeq(trace, LAMBDA c : c.call = kind)

\* a command was started in the project of that name
CommandRanIn(name) == \E i \in 1..Len(trace) : trace[i].call = "command" /\ trace[i].project = name

\* the results entries are those of the first n projects of the filtered list, in order
ResultsCover(n) ==
    /\ Len(results) = n
    /\ \A i \in 1..n : results[i].project = filtered[i].name

\* C1: with atomic = true, once a project of the filtered list is recorded as
\* failed (exit status, spawn error or missing path), no command is run in a
\* later project: the first failed entry is the last entry of results.
AtomicStopsAtFirstFailure ==
    atomic =>
        \A i \in 1..Len(results) :
            ~results[i].success =>
                /\ i = Len(results)
                /\ \A j \in (i + 1)..Len(filtered) : ~CommandRanIn(filtered[j].name)

\* C2: three filtered projects, the command succeeds in the first and fails in
\* the second, atomic = true: the call returns has_failure = true and
\* rolled_back = true, with results for the first two projects only, and the
\* third project is never executed.
FailFastReportOfThree ==
    (/\ b_pc = "done"
     /\ atomic
     /\ Len(filtered) = 3
     /\ Len(results) >= 2
     /\ results[1].success
     /\ ~results[2].success
     /\ results[2] # PathMissing(filtered[2]))
        => /\ b_ret.tag = "Ok"
           /\ b_ret.value.has_failure
           /\ b_ret.value.rolled_back
           /\ b_ret.value.results = results
           /\ ResultsCover(2)
           /\ ~CommandRanIn(filtered[3].name)

\* C3: with atomic = false, every project of the filtered list gets exactly
\* one results entry, in list order, whatever failed before; no snapshot is
\* created, tool_snapshot_restore is never invoked, and rolled_back is false.
NonAtomicRunsAll ==
    ~atomic =>
        /\ Calls("snapshot_create") = <<>>
        /\ Calls("snapshot_restore") = <<>>
        /\ store = EmptyMap
        /\ b_pc = "done" =>
            /\ b_ret.tag = "Ok"
            /\ b_ret.value.results = results
            /\ ResultsCover(Len(filtered))
            /\ ~b_ret.value.rolled_back

\* a non-atomic batch over three projects has returned; the first project
\* failed and the last one succeeded
NonAtomicPassedAFailure ==
    /\ b_pc = "done"
    /\ ~atomic
    /\ Len(filtered) = 3
    /\ Len(results) = 3
    /\ ~results[1].success
    /\ results[3].success

\* C4: once the project list is loaded the call returns a structured outcome
\* (results, has_failure, rolled_back), also when the snapshot before the
\* batch could not be created and a project fails in atomic mode, and when
\* the restore of the rollback fails: the results collected are never given
\* up for a single error.
AlwaysStructuredOutcome ==
    b_pc = "done" =>
        /\ b_ret.tag = "Ok"
        /\ b_ret.value.results = results
        /\ b_ret.value.has_failure = has_failure

(***************************************************************************)
(* Properties of the built graph.                                          *)
(***************************************************************************)
\* C11: after build_dependency_graph, on any list of projects, edges and
\* reverse_edges are exact transposes: B occurs in edges[A] as many times as
\* A occurs in reverse_edges[B], an absent key counting as the empty list.
EdgesAreTransposes ==
    g_pc # "input" =>
        \A A \in Names, B \in Names :
            Occurrences(GetOrEmpty(graph.edges, A), B)
                = Occurrences(GetOrEmpty(graph.reverse_edges, B), A)

\* the names some depends_on entry carries and no project of the list does
Dangling(projects) ==
    UNION {Range(projects[i].depends_on) : i \in 1..Len(projects)}
        \ {projects[i].name : i \in 1..Len(projects)}

\* C12: when a depends_on entry names a project that is not in nodes, the
\* build, topological_sort and analyze_project_impact complete without error
\* or panic, and the dangling name is never in the topological order nor in
\* the direct_dependents or transitive_dependents of any project.
DanglingNameIsHarmless ==
    Dangling(g_projects) # {} =>
        /\ g_pc # "panic"
        /\ Range(result) \cap Dangling(g_projects) = {}
        /\ Range(direct_dependents) \cap Dangling(g_projects) = {}
        /\ Range(transitive_dependents) \cap Dangling(g_projects) = {}

(***************************************************************************)
(* Text.  A String is the sequence of its characters.                      *)
(***************************************************************************)
Upper == <<"A", "B", "C", "D", "E", "F", "G", "H", "I", "J", "K", "L", "M",
           "N", "O", "P", "Q", "R", "S", "T", "U", "V", "W", "X", "Y", "Z">>
Lower == <<"a", "b", "c", "d", "e", "f", "g", "h", "i", "j", "k", "l", "m",
           "n", "o", "p", "q", "r", "s", "t", "u", "v", "w", "x", "y", "z">>

\* str::to_lowercase
ToLowercase(s) ==
    [i \in 1..Len(s) |->
        IF \E k \in 1..Len(Upper) : Upper[k] = s[i]
        THEN Lower[CHOOSE k \in 1..Len(Upper) : Upper[k] = s[i]]
        ELSE s[i]]

\* the first index at which pat occurs in s, 0 when it does not
Find(s, pat) ==
    LET at == {i \in 1..(Len(s) - Len(pat) + 1) : SubSeq(s, i, i + Len(pat) - 1) = pat}
    IN  IF at = {} THEN 0 ELSE CHOOSE i \in at : \A j \in at : i <= j

\* str::split(pat): the pieces between the occurrences of pat, found from
\* the left, empty pieces and the whole string without occurrence included
RECURSIVE Split(_, _)
Split(s, pat) ==
    IF Find(s, pat) = 0 THEN <<s>>
    ELSE <<SubSeq(s, 1, Find(s, pat) - 1)>>
             \o Split(SubSeq(s, Find(s, pat) + Len(pat), Len(s)), pat)

\* str::splitn(2, ':'): the string, or what is before and after its first ':'
SplitN2(s) ==
    IF Find(s, <<":">>) = 0 THEN <<s>>
    ELSE <<SubSeq(s, 1, Find(s, <<":">>) - 1), SubSeq(s, Find(s, <<":">>) + 1, Len(s))>>

\* str::trim
RECURSIVE Trim(_)
Trim(s) ==
    IF s = <<>> THEN s
    ELSE IF Head(s) = " " THEN Trim(Tail(s))
    ELSE IF s[Len(s)] = " " THEN Trim(SubSeq(s, 1, Len(s) - 1))
    ELSE s

\* Vec::dedup: of each run of equal consecutive elements the first is kept
RECURSIVE Dedup(_)
Dedup(v) ==
    IF Len(v) <= 1 THEN v
    ELSE IF v[1] = v[2] THEN Dedup(Tail(v))
    ELSE <<v[1]>> \o Dedup(Tail(v))

\* str::parse::<bool>().unwrap_or(false)
TrueText == <<"t", "r", "u", "e">>
FalseText == <<"f", "a", "l", "s", "e">>
ParseBoolOrFalse(value) == value = TrueText

(***************************************************************************)
(* parse_query                                                             *)
(***************************************************************************)
UpperAnd == <<" ", "A", "N", "D", " ">>
LowerAnd == <<" ", "a", "n", "d", " ">>

\* query_str.split(" AND ").chain(query_str.split(" and "))
QueryParts(s) == Split(s, UpperAnd) \o Split(s, LowerAnd)

\* the body of the loop: the condition a part gives, none for an empty part
\* or one without ':'
RECURSIVE PartConditions(_)
PartConditions(parts) ==
    IF parts = <<>> THEN <<>>
    ELSE LET part == Trim(Head(parts))
         IN  (IF part = <<>> \/ Len(SplitN2(part)) # 2 THEN <<>>
              ELSE << <<ToLowercase(Trim(SplitN2(part)[1])), Trim(SplitN2(part)[2])>> >>)
             \o PartConditions(Tail(parts))

parse_query(s) == Dedup(PartConditions(QueryParts(s)))

(***************************************************************************)
(* matches_query and collect_repo_state                                    *)
(***************************************************************************)
DirtyField == <<"d", "i", "r", "t", "y">>
BranchField == <<"b", "r", "a", "n", "c", "h">>
TagField == <<"t", "a", "g">>
AheadField == <<"a", "h", "e", "a", "d">>
BehindField == <<"b", "e", "h", "i", "n", "d">>

KnownFields == {DirtyField, BranchField, TagField, AheadField, BehindField}

\* a field the match arm "_" takes fails the condition
UnknownFieldFails(state, value) == FALSE

\* _ => true, // Unknown field, skip
UnknownField(state, value) == TRUE

\* the match on the field of one condition
ConditionMatches(state, field, value) ==
    IF field = DirtyField THEN state.is_dirty = ParseBoolOrFalse(value)
    ELSE IF field = BranchField THEN state.branch = value
    ELSE IF field = TagField THEN value \in state.tags
    ELSE IF field = AheadField THEN (state.ahead > 0) = ParseBoolOrFalse(value)
    ELSE IF field = BehindField THEN (state.behind > 0) = ParseBoolOrFalse(value)
    ELSE UnknownField(state, value)

\* the loop returns false at the first condition that does not match
matches_query(state, conds) ==
    \A i \in 1..Len(conds) : ConditionMatches(state, conds[i][1], conds[i][2])

\* the output of git rev-parse --abbrev-ref HEAD, "unknown" when git fails
BranchText(r) ==
    IF ~r.git THEN <<"u", "n", "k", "n", "o", "w", "n">>
    ELSE IF r.branch = "main" THEN <<"m", "a", "i", "n">> ELSE <<"d", "e", "v">>

\* what get_ahead_behind can return for a working copy: no upstream or level
\* with it, ahead of it, behind it
AheadBehind == {<<0, 0>>, <<2, 0>>, <<0, 1>>}

\* the facts collected for a project whose path exists; every git failure
\* is replaced by a default, so the call returns Ok for a path without git
collect_repo_state(project, r, ab) ==
    [name     |-> project.name,
     path     |-> project.path,
     branch   |-> BranchText(r),
     tags     |-> project.tags,
     is_dirty |-> StatusDirty(r),
     ahead    |-> IF r.git THEN ab[1] ELSE 0,
     behind   |-> IF r.git THEN ab[2] ELSE 0]

(***************************************************************************)
(* The queries asked: up to MaxConjuncts conjuncts field:value, joined by  *)
(* the word AND in one of three letter cases.                              *)
(***************************************************************************)
\* most conjuncts in one query string
MaxConjuncts == 2
\* the projects of the manifest a query runs over
QueryProjects == 2

Backend == <<"b", "a", "c", "k", "e", "n", "d">>

DirtyTrue == <<"d", "i", "r", "t", "y", ":", "t", "r", "u", "e">>
DirtyFalse == <<"d", "i", "r", "t", "y", ":", "f", "a", "l", "s", "e">>
TagBackend == <<"t", "a", "g", ":", "b", "a", "c", "k", "e", "n", "d">>
BranchMain == <<"b", "r", "a", "n", "c", "h", ":", "m", "a", "i", "n">>
LangRust == <<"l", "a", "n", "g", ":", "r", "u", "s", "t">>

Conjuncts == {DirtyTrue, DirtyFalse, TagBackend, BranchMain, LangRust}

MixedAnd == <<" ", "A", "n", "d", " ">>

Delimiters == {UpperAnd, LowerAnd, MixedAnd}

\* the conjuncts joined by the delimiters, delims[i] after parts[i]
RECURSIVE Join(_, _)
Join(parts, delims) ==
    IF Len(parts) = 1 THEN parts[1]
    ELSE parts[1] \o delims[1] \o Join(Tail(parts), Tail(delims))

(***************************************************************************)
(* tool_query_repos                                                        *)
(***************************************************************************)
\* the argument is read and parsed, the manifest is loaded
QueryStart ==
    /\ q_pc = "idle"
    /\ \E n \in 1..MaxConjuncts :
        \E parts \in [1..n -> Conjuncts], delims \in [1..(n - 1) -> Delimiters] :
            /\ q_conjuncts' = parts
            /\ query_str' = Join(parts, delims)
            /\ conditions' = parse_query(Join(parts, delims))
    /\ matching' = <<>>
    /\ q_idx' = 1
    /\ q_pc' = "loop"
    /\ UNCHANGED q_ret
    /\ UNCHANGED <<gvars, bvars, rvars, svars, mvars>>

\* one iteration of "for project in &projects"
QueryIter ==
    /\ q_pc = "loop"
    /\ q_idx <= Len(w_projects)
    /\ LET project == w_projects[q_idx]
       IN  IF ~repos[project.path].exists
           THEN UNCHANGED matching
           ELSE \E ab \in AheadBehind :
                LET state == collect_repo_state(project, repos[project.path], ab)
                IN  matching' = IF matches_query(state, conditions)
                                THEN Append(matching, state) ELSE matching
    /\ q_idx' = q_idx + 1
    /\ UNCHANGED <<query_str, q_conjuncts, q_pc, conditions, q_ret>>
    /\ UNCHANGED <<gvars, bvars, rvars, svars, mvars>>

\* after the loop: the returned value
QueryReturn ==
    /\ q_pc = "loop"
    /\ q_idx > Len(w_projects)
    /\ q_ret' = Ok([query |-> query_str, matches |-> Len(matching), projects |-> matching])
    /\ q_pc' = "done"
    /\ UNCHANGED <<query_str, q_conjuncts, conditions, q_idx, matching>>
    /\ UNCHANGED <<gvars, bvars, rvars, svars, mvars>>

\* a directory that is no working copy, where every git command fails
PlainDirectory == [Missing EXCEPT !.exists = TRUE]

\* the workspace a query runs in: each project tagged backend or not, each
\* path missing, a plain directory, or a working copy, clean or not, on
\* either branch
InitQuery ==
    /\ \E tags \in [1..QueryProjects -> SUBSET {Backend}] :
          w_projects = [i \in 1..QueryProjects |-> [name |-> i, path |-> i, tags |-> tags[i]]]
    /\ repos \in [1..QueryProjects ->
                    {Missing, PlainDirectory, WorkingCopy("none"), WorkingCopy("tracked"),
                     Checkout(WorkingCopy("none"), "dev")}]
    /\ store = EmptyMap
    /\ now \in Timestamps
    /\ b_pc = "idle"
    /\ atomic = FALSE
    /\ b_tag = None
    /\ filtered = <<>>
    /\ b_idx = 1
    /\ results = <<>>
    /\ has_failure = FALSE
    /\ snapshot_name = None
    /\ b_ret = None
    /\ trace = <<>>
    /\ r_pc = "idle"
    /\ r_force = FALSE
    /\ r_projects = <<>>
    /\ r_idx = 1
    /\ restored = <<>>
    /\ failed = <<>>
    /\ r_ret = None
    /\ r_before = EmptyMap
    /\ c_ret = None
    /\ QueryIdle
    /\ GraphIdle
    /\ ServerIdle

NextQuery == QueryStart \/ QueryIter \/ QueryReturn

SpecQuery == InitQuery /\ [][NextQuery]_vars

(***************************************************************************)
(* Properties of the query language.                                       *)
(***************************************************************************)
\* the repo states collect_repo_state can return for a project
RepoStates ==
    {collect_repo_state([name |-> 1, path |-> 1, tags |-> tags], r, ab) :
        tags \in SUBSET {Backend},
        r \in {PlainDirectory, WorkingCopy("none"), WorkingCopy("tracked"),
               Checkout(WorkingCopy("tracked"), "dev")},
        ab \in AheadBehind}

\* the names of the projects in matching
MatchingNames == {matching[i].name : i \in 1..Len(matching)}

\* the query string dirty:true AND tag:backend
DirtyTrueAndTagBackend == Join(<<DirtyTrue, TagBackend>>, <<UpperAnd>>)

\* C13: for every repo state S, matches_query(S, parse_query("dirty:true AND
\* tag:backend")) is true if and only if S.is_dirty is true and "backend" is
\* an element of S.tags.
DirtyAndBackendQuery ==
    (q_pc # "idle" /\ query_str = DirtyTrueAndTagBackend) =>
        /\ \A S \in RepoStates :
              matches_query(S, conditions) <=> (S.is_dirty /\ Backend \in S.tags)
        /\ \A i \in 1..(q_idx - 1) :
              w_projects[i].name \in MatchingNames
                  <=> /\ StatusDirty(repos[w_projects[i].path])
                      /\ Backend \in w_projects[i].tags

\* a conjunct split at its first ':' with the surrounding whitespace trimmed
ConjunctCondition(conjunct) == <<Trim(SplitN2(conjunct)[1]), Trim(SplitN2(conjunct)[2])>>

\* C14: for a query string of n >= 1 well-formed conjuncts field:value joined
\* by AND in any letter case, parse_query returns exactly n conditions, one
\* per conjunct in declaration order, each the conjunct split at its first
\* ':' and trimmed.
OneConditionPerConjunct ==
    q_pc # "idle" =>
        /\ Len(conditions) = Len(q_conjuncts)
        /\ \A i \in 1..Len(q_conjuncts) : conditions[i] = ConjunctCondition(q_conjuncts[i])

\* L with the conditions on unknown fields removed
KnownOnly(L) == SelectSeq(L, LAMBDA c : c[1] \in KnownFields)

\* condition lists of up to two conditions, on every known field and on two
\* unknown ones
ConditionLists ==
    SeqsUpTo((KnownFields \cup {<<"l", "a", "n", "g">>, <<"D", "i", "r", "t", "y">>})
                 \X {TrueText, FalseText, Backend},
             2)

OnlyWorkingCopiesMatch ==
    /\ \A i \in 1..Len(matching) : repos[matching[i].path].git
    /\ q_pc = "done" => q_ret.tag = "Ok"

(***************************************************************************)
(* Snapshots taken and restored by a caller: tool_snapshot_create, then    *)
(* changes made to the working copies from outside, then                   *)
(* tool_snapshot_restore.  The server handles one request at a time.       *)
(***************************************************************************)
\* most changes made to the working copies between the two calls
MaxChanges == 1

\* most snapshots a caller takes
MaxCreates == 2

\* the names a caller gives a snapshot: two names, one file name
SnapshotNames == {<<"a", "/", "b">>, <<"a", " ", "b">>}

\* what a change from outside does to a working copy: an edit of a tracked
\* file, a new commit, another branch checked out, the directory removed
ChangeKinds == {"edit", "commit", "checkout", "remove"}

Changed(r, kind) ==
    IF kind = "remove" THEN Missing
    ELSE IF ~r.git THEN r
    ELSE IF kind = "edit" THEN [r EXCEPT !.changes = "tracked"]
    ELSE IF kind = "commit" THEN AfterCommand(r, "commit")
    ELSE Checkout(r, "dev")

\* tool_snapshot_create called with a name and no description
CreateCall ==
    /\ \E name \in SnapshotNames, written \in BOOLEAN :
        LET out == tool_snapshot_create(name, None, w_projects, repos, store, now, written)
        IN  /\ store' = out.store
            /\ c_ret' = out.ret
            /\ trace' = Append(trace, [call     |-> "snapshot_create",
                                       name     |-> name,
                                       ok       |-> out.ret.tag = "Ok",
                                       projects |-> ProjectSnapshots(w_projects, repos)])
    /\ UNCHANGED <<w_projects, repos, now, b_pc, atomic, b_tag, filtered, b_idx, results,
                   has_failure, snapshot_name, b_ret>>
    /\ UNCHANGED <<gvars, rvars, qvars, mvars>>

\* the first snapshot a caller takes
SnapshotCreate ==
    /\ b_pc = "idle" /\ r_pc = "idle"
    /\ Calls("snapshot_create") = <<>>
    /\ CreateCall

\* a further snapshot, taken after the first
SnapshotCreateAgain ==
    /\ b_pc = "idle" /\ r_pc = "idle"
    /\ Calls("snapshot_create") # <<>>
    /\ Len(Calls("snapshot_create")) < MaxCreates
    /\ CreateCall

\* a working copy is changed between the calls
RepoChange ==
    /\ b_pc = "idle" /\ r_pc = "idle"
    /\ Calls("snapshot_create") # <<>>
    /\ Len(Calls("change")) < MaxChanges
    /\ \E path \in DOMAIN repos, kind \in ChangeKinds :
        /\ Changed(repos[path], kind) # repos[path]
        /\ repos' = [repos EXCEPT ![path] = Changed(@, kind)]
        /\ trace' = Append(trace, [call |-> "change", path |-> path])
    /\ UNCHANGED <<w_projects, store, now, b_pc, atomic, b_tag, filtered, b_idx, results,
                   has_failure, snapshot_name, b_ret>>
    /\ UNCHANGED <<gvars, rvars, qvars, svars, mvars>>

\* tool_snapshot_restore called with a name and force (false by default)
RestoreCall ==
    /\ b_pc = "idle" /\ r_pc = "idle"
    /\ \E name \in SnapshotNames, force \in BOOLEAN, readable \in BOOLEAN :
          RestoreBegin(name, force, readable)
    /\ UNCHANGED <<w_projects, repos, store, now, b_pc, atomic, b_tag, filtered, b_idx,
                   results, has_failure, snapshot_name, b_ret>>
    /\ UNCHANGED <<gvars, qvars, svars, mvars>>

\* a clean working copy on the branch dev, one commit ahead of main
OnDev == [WorkingCopy("none") EXCEPT !.branch = "dev", !.tips["dev"] = "c2"]

\* the workspace: each path missing or a working copy, clean on main or on
\* dev, with edits of tracked files, or with new files only
InitSnapshot ==
    /\ w_projects = [i \in 1..MaxProjects |-> [name |-> i, path |-> i, tags |-> {}]]
    /\ repos \in [1..MaxProjects ->
                    {Missing, OnDev}
                        \cup {WorkingCopy(c) : c \in {"none", "tracked", "untracked"}}]
    /\ store = EmptyMap
    /\ now \in Timestamps
    /\ b_pc = "idle"
    /\ atomic = FALSE
    /\ b_tag = None
    /\ filtered = <<>>
    /\ b_idx = 1
    /\ results = <<>>
    /\ has_failure = FALSE
    /\ snapshot_name = None
    /\ b_ret = None
    /\ trace = <<>>
    /\ r_pc = "idle"
    /\ r_force = FALSE
    /\ r_projects = <<>>
    /\ r_idx = 1
    /\ restored = <<>>
    /\ failed = <<>>
    /\ r_ret = None
    /\ r_before = EmptyMap
    /\ c_ret = None
    /\ QueryIdle
    /\ GraphIdle
    /\ ServerIdle

NextSnapshot == SnapshotCreate \/ RepoChange \/ RestoreCall \/ RestoreStep \/ RestoreReturn

SpecSnapshot == InitSnapshot /\ [][NextSnapshot]_vars

(***************************************************************************)
(* A caller that takes a second snapshot, in a workspace of clean working  *)
(* copies on main or on dev.                                               *)
(***************************************************************************)
InitCollision ==
    /\ w_projects = [i \in 1..MaxProjects |-> [name |-> i, path |-> i, tags |-> {}]]
    /\ repos \in [1..MaxProjects -> {OnDev, WorkingCopy("none")}]
    /\ store = EmptyMap
    /\ now \in Timestamps
    /\ b_pc = "idle"
    /\ atomic = FALSE
    /\ b_tag = None
    /\ filtered = <<>>
    /\ b_idx = 1
    /\ results = <<>>
    /\ has_failure = FALSE
    /\ snapshot_name = None
    /\ b_ret = None
    /\ trace = <<>>
    /\ r_pc = "idle"
    /\ r_force = FALSE
    /\ r_projects = <<>>
    /\ r_idx = 1
    /\ restored = <<>>
    /\ failed = <<>>
    /\ r_ret = None
    /\ r_before = EmptyMap
    /\ c_ret = None
    /\ QueryIdle
    /\ GraphIdle
    /\ ServerIdle

NextCollision == NextSnapshot \/ SnapshotCreateAgain

SpecCollision == InitCollision /\ [][NextCollision]_vars

(***************************************************************************)
(* Properties of snapshots.                                                *)
(***************************************************************************)
\* the entries of the snapshot the restore was called for
SnapshotEntries == r_projects

\* the entry of failed for a project, with one of the errors
FailedWith(name, errors) ==
    \E i \in 1..Len(failed) : failed[i].project = name /\ failed[i].error \in errors

UncommittedChanges == "Has uncommitted changes (use force=true to override)"

\* tool_snapshot_create(name) returned Ok and was followed at once, with no
\* change to a working copy, by tool_snapshot_restore(name) with force =
\* false, which has returned
RoundTrip ==
    /\ r_pc = "done"
    /\ Len(trace) = 2
    /\ trace[1].call = "snapshot_create"
    /\ trace[2].call = "snapshot_restore"
    /\ trace[2].name = trace[1].name
    /\ ~trace[2].force
    /\ c_ret.tag = "Ok"

\* C17 as stated: after a snapshot is created and restored at once with
\* force = false, the restore returns status "success", every recorded
\* project is in restored, and each branch and commit is what it was before,
\* whether or not a project had uncommitted changes at the snapshot.
RoundTripSucceeds ==
    RoundTrip =>
        /\ r_ret.tag = "Ok"
        /\ r_ret.value.status = "success"
        /\ \A e \in Range(store[FileName(trace[1].name)].projects) : e.name \in Range(restored)
        /\ \A p \in DOMAIN repos :
              repos[p].branch = r_before[p].branch /\ HeadCommit(repos[p]) = HeadCommit(r_before[p])

\* C17 amended: when that restore returns a result, every recorded project
\* without uncommitted changes is in restored unless its checkout or reset
\* fails, every recorded project with uncommitted changes is in failed
\* ("Has uncommitted changes"), so that status is "success" only if no
\* recorded project had uncommitted changes, and every working copy (branch,
\* commit, changes) is what it was before.
RoundTripRestoresCleanProjects ==
    (RoundTrip /\ r_ret.tag = "Ok") =>
        /\ \A e \in Range(SnapshotEntries) :
              IF e.is_dirty
              THEN FailedWith(e.name, {UncommittedChanges}) /\ e.name \notin Range(restored)
              ELSE \/ e.name \in Range(restored)
                   \/ FailedWith(e.name, {"Failed to checkout", "Failed to reset"})
        /\ r_ret.value.status = "success" => \A e \in Range(SnapshotEntries) : ~e.is_dirty
        /\ repos = r_before

\* a round trip over a snapshot with a project on dev that is restored and a
\* project with uncommitted changes
RoundTripWithDirtyProject ==
    /\ RoundTrip
    /\ r_ret.tag = "Ok"
    /\ \E e \in Range(SnapshotEntries) : e.is_dirty
    /\ \E e \in Range(SnapshotEntries) : e.branch = "dev" /\ e.name \in Range(restored)

\* the restore call is running or has returned from its loop
RestoreLooped == r_pc = "loop" \/ (r_pc = "done" /\ r_ret.tag = "Ok")

\* C18: in tool_snapshot_restore with force = false, a project whose live
\* working copy is dirty is recorded in failed and no stash, checkout or
\* reset is issued against it: its branch, commit and working-tree changes
\* are unchanged by the restore.
DirtyWithoutForceIsUntouched ==
    (RestoreLooped /\ ~r_force) =>
        \A i \in 1..Len(r_projects) :
            StatusDirty(r_before[r_projects[i].path]) =>
                /\ repos[r_projects[i].path] = r_before[r_projects[i].path]
                /\ i < r_idx =>
                      /\ FailedWith(r_projects[i].name, {UncommittedChanges})
                      /\ r_projects[i].name \notin Range(restored)

\* a restore without force has returned: it refused a dirty working copy and
\* moved another one back to the snapshot
RefusedOneRestoredAnother ==
    /\ r_pc = "done"
    /\ ~r_force
    /\ \E i \in 1..Len(r_projects) : StatusDirty(r_before[r_projects[i].path])
    /\ \E i \in 1..Len(r_projects) :
          /\ r_projects[i].name \in Range(restored)
          /\ repos[r_projects[i].path] # r_before[r_projects[i].path]

\* the names of the entries of failed, in order
FailedNames == [i \in 1..Len(failed) |-> failed[i].project]

\* the names of the snapshot entries, in order
EntryNames == [i \in 1..Len(r_projects) |-> r_projects[i].name]

\* C19: when tool_snapshot_restore returns a result, every entry of the
\* snapshot is in exactly one of restored and failed (restored_count +
\* failed_count = number of entries), and status is "success" if and only if
\* failed is empty, otherwise "partial".
RestorePartitionsEntries ==
    (r_pc = "done" /\ r_ret.tag = "Ok") =>
        /\ r_ret.value.restored = restored /\ r_ret.value.failed = failed
        /\ r_ret.value.restored_count = Len(restored)
        /\ r_ret.value.failed_count = Len(failed)
        /\ r_ret.value.restored_count + r_ret.value.failed_count = Len(r_projects)
        /\ \A i \in 1..Len(r_projects) :
              (Occurrences(restored, r_projects[i].name) = 1
                  /\ Occurrences(FailedNames, r_projects[i].name) = 0)
              \/ (Occurrences(restored, r_projects[i].name) = 0
                  /\ Occurrences(FailedNames, r_projects[i].name) = 1)
        /\ r_ret.value.status = "success" <=> failed = <<>>
        /\ r_ret.value.status # "success" => r_ret.value.status = "partial"

\* a restore has returned with projects restored and projects failed
RestoredSomeFailedSome ==
    /\ r_pc = "done"
    /\ r_ret.tag = "Ok"
    /\ restored # <<>>
    /\ failed # <<>>

\* C20: a failure on the N-th entry of the snapshot (missing path, dirty
\* without force, checkout or reset failure) neither ends the loop nor
\* undoes earlier work: the entries before N that were restored stay in
\* restored with their working copies at the branch and commit of the
\* snapshot, and every entry after N is still attempted, in snapshot order.
FailureNeitherAbortsNorUndoes ==
    RestoreLooped =>
        /\ r_pc = "done" => r_idx = Len(r_projects) + 1
        /\ \A i \in 1..(r_idx - 1) :
              r_projects[i].name \in Range(restored) \cup Range(FailedNames)
        /\ \A i \in r_idx..Len(r_projects) :
              r_projects[i].name \notin Range(restored) \cup Range(FailedNames)
        /\ restored = SelectSeq(EntryNames, LAMBDA n : n \in Range(restored))
        /\ FailedNames = SelectSeq(EntryNames, LAMBDA n : n \in Range(FailedNames))
        /\ \A i \in 1..Len(r_projects) :
              r_projects[i].name \in Range(restored) =>
                  /\ repos[r_projects[i].path].branch = r_projects[i].branch
                  /\ HeadCommit(repos[r_projects[i].path]) = r_projects[i].commit

\* a restore has returned: the first entry was moved back to the commit of
\* the snapshot, the second failed, the third was restored after it
RestoredAroundAFailure ==
    /\ r_pc = "done"
    /\ r_ret.tag = "Ok"
    /\ Len(r_projects) = 3
    /\ r_projects[1].name \in Range(restored)
    /\ HeadCommit(r_before[r_projects[1].path]) # r_projects[1].commit
    /\ r_projects[2].name \in Range(FailedNames)
    /\ r_projects[3].name \in Range(restored)

(***************************************************************************)
(* Properties of the in-degree counters of topological_sort.               *)
(***************************************************************************)
\* the entries of the depends_on list of the node n that name a project in nodes
UnresolvedDependencies(g, n) ==
    Cardinality({i \in 1..Len(g.nodes[n].depends_on) :
                    g.nodes[n].depends_on[i] \in DOMAIN g.nodes})

\* topological_sort has filled in_degree and seeded its queue, and no
\* iteration of its loop has run
JustSeeded ==
    /\ g_pc = "kahn"
    /\ result = <<>>
    /\ in_degree = InitialInDegree(graph)
    /\ Range(ts_queue) = {n \in DOMAIN graph.nodes : IsSeed(in_degree, n)}

\* C24: the initial in-degree of each node is the number of entries of its
\* own depends_on list that name a project in nodes, so the queue is seeded
\* with exactly the projects that have no dependencies.
InDegreeCountsOwnDependencies ==
    JustSeeded =>
        /\ \A n \in DOMAIN graph.nodes : in_degree[n] = UnresolvedDependencies(graph, n)
        /\ Range(ts_queue) = {n \in DOMAIN graph.nodes : UnresolvedDependencies(graph, n) = 0}

\* C30: on a graph built from any list of projects (cycles, dangling names,
\* repeated depends_on entries and repeated project names included) the
\* in-degree counter of a node is never decremented when it is 0: the
\* subtraction never underflows.
DecrementNeverUnderflows ==
    /\ g_pc # "panic"
    /\ \A n \in DOMAIN in_degree : in_degree[n] # UsizeMax

(***************************************************************************)
(* Properties of snapshot names.                                           *)
(***************************************************************************)
\* C21: two distinct snapshot names that sanitize to the same file name
\* never silently overwrite one another: after tool_snapshot_create with the
\* first name and then with the second, either the second call is rejected
\* or reported as a collision, or the first snapshot can still be restored
\* with its own recorded contents.
NoSilentOverwrite ==
    \A i, j \in 1..Len(trace) :
        (/\ i < j
         /\ trace[i].call = "snapshot_create" /\ trace[j].call = "snapshot_create"
         /\ trace[i].ok
         /\ trace[i].name # trace[j].name
         /\ FileName(trace[i].name) = FileName(trace[j].name))
            => \/ ~trace[j].ok
               \/ /\ FileName(trace[i].name) \in DOMAIN store
                  /\ store[FileName(trace[i].name)].name = trace[i].name
                  /\ store[FileName(trace[i].name)].projects = trace[i].projects

(***************************************************************************)
(* The JSON-RPC server: handle_request, handle_call_tool and               *)
(* tool_git_multi_commit.                                                  *)
(*                                                                         *)
(* A serde_json::Value is a record tagged with its kind; an object is a    *)
(* record of the keys the code reads, each an Option.  An error message is *)
(* the sequence of its characters.                                         *)
(***************************************************************************)
CommitProjects == 2
MaxCommits == 2

JsonNumber == [kind |-> "number"]
JsonString(str) == [kind |-> "string", str |-> str]
JsonArray(items) == [kind |-> "array", items |-> items]

\* .and_then(|v| v.as_str())
AsStr(v) == IF v.some /\ v.value.kind = "string" THEN Some(v.value.str) ELSE NoValue

\* .and_then(|v| v.as_array())
AsArray(v) == IF v.some /\ v.value.kind = "array" THEN Some(v.value.items) ELSE NoValue

\* "No meta repository found"
NoMetaRepository ==
    <<"N", "o", " ", "m", "e", "t", "a", " ", "r", "e", "p", "o", "s", "i", "t", "o", "r", "y", " ", "f", "o", "u", "n", "d">>

\* "Missing 'commits' argument"
MissingCommits ==
    <<"M", "i", "s", "s", "i", "n", "g", " ", "'", "c", "o", "m", "m", "i", "t", "s", "'", " ", "a", "r", "g", "u", "m", "e", "n", "t">>

\* "Missing 'project' in commit entry"
MissingProject ==
    <<"M", "i", "s", "s", "i", "n", "g", " ", "'", "p", "r", "o", "j", "e", "c", "t", "'", " ", "i", "n", " ", "c", "o", "m", "m", "i", "t", " ", "e", "n", "t", "r", "y">>

\* "Missing 'message' in commit entry"
MissingMessage ==
    <<"M", "i", "s", "s", "i", "n", "g", " ", "'", "m", "e", "s", "s", "a", "g", "e", "'", " ", "i", "n", " ", "c", "o", "m", "m", "i", "t", " ", "e", "n", "t", "r", "y">>

\* "Missing tool name"
MissingToolName ==
    <<"M", "i", "s", "s", "i", "n", "g", " ", "t", "o", "o", "l", " ", "n", "a", "m", "e">>

\* "Unknown tool: "
UnknownTool(name) ==
    <<"U", "n", "k", "n", "o", "w", "n", " ", "t", "o", "o", "l", ":", " ">> \o <<name>>

\* "Method not found: "
MethodNotFound(method) ==
    <<"M", "e", "t", "h", "o", "d", " ", "n", "o", "t", " ", "f", "o", "u", "n", "d", ":", " ">> \o <<method>>

\* the project "." names the meta repository itself
Dot == 0

InternalError == -32603

MultiCommit == "meta_git_multi_commit"


\* JsonRpcResponse built by ok_response
ok_response(id, value) ==
    [jsonrpc |-> "2.0", id |-> id, result |-> Some(value), error |-> NoValue]

\* JsonRpcResponse built by error_response
error_response(id, code, message) ==
    [jsonrpc |-> "2.0", id |-> id, result |-> NoValue,
     error |-> Some([code |-> code, message |-> message, data |-> NoValue])]

\* handle_call_tool wraps what the tool returned: isError is left out
CallToolResultNoFlag(res) ==
    [content |-> <<[type |-> "text",
                    text |-> IF res.tag = "Ok" THEN res.value ELSE res.error]>>,
     is_error |-> NoValue]

\* handle_call_tool wraps what the tool returned
CallToolResult(res) ==
    IF res.tag = "Ok"
    THEN [content |-> <<[type |-> "text", text |-> res.value]>>, is_error |-> NoValue]
    ELSE [content |-> <<[type |-> "text", text |-> res.error]>>, is_error |-> Some(TRUE)]

\* the entries a caller may put in "commits": "project" and "message" each
\* absent, not a string, or a string
CommitEntries ==
    [project : {NoValue, Some(JsonNumber)} \cup {Some(JsonString(p)) : p \in Dot..CommitProjects},
     message : {NoValue, Some(JsonNumber), Some(JsonString("m"))}]

\* the "arguments" of a call: "commits" absent, a string, or an array
Arguments ==
    {[commits |-> NoValue], [commits |-> Some(JsonString("not an array"))]}
        \cup {[commits |-> Some(JsonArray(items))] : items \in SeqsUpTo(CommitEntries, MaxCommits)}

\* the "params" of tools/call: "name" and "arguments" each present or not
CallParams ==
    [name : {NoValue, Some(JsonNumber), Some(JsonString("meta_unknown")),
             Some(JsonString(MultiCommit))},
     arguments : {NoValue} \cup {Some(a) : a \in Arguments}]

\* serde's default for a request without "params"
NoParams == [name |-> NoValue, arguments |-> NoValue]

RequestIds == {NoValue, Some(1), Some(2)}

Methods == {"initialize", "initialized", "tools/list", "tools/call", "ping"}

Requests ==
    {[jsonrpc |-> "2.0", id |-> id, method |-> m, params |-> NoParams] :
        id \in RequestIds, m \in Methods}
        \cup {[jsonrpc |-> "2.0", id |-> id, method |-> "tools/call", params |-> p] :
                id \in RequestIds, p \in CallParams}

\* params.get("arguments").cloned().unwrap_or(empty object)
ArgumentsOf(params) ==
    IF params.arguments.some THEN params.arguments.value ELSE [commits |-> NoValue]

\* handle_request takes a request; every method but a call of
\* meta_git_multi_commit is answered at once
HandleRequest ==
    /\ h_pc = "idle"
    /\ \E req \in Requests :
          LET name == AsStr(req.params.name)
          IN  /\ request' = Some(req)
              /\ CASE req.method = "initialize" ->
                        /\ response' = Some(ok_response(req.id, "InitializeResult"))
                        /\ h_pc' = "done"
                        /\ UNCHANGED <<tool_result, m_args, m_pc>>
                   [] req.method = "initialized" ->
                        /\ response' = Some(ok_response(req.id, "null"))
                        /\ h_pc' = "done"
                        /\ UNCHANGED <<tool_result, m_args, m_pc>>
                   [] req.method = "tools/list" ->
                        /\ response' = Some(ok_response(req.id, "ListToolsResult"))
                        /\ h_pc' = "done"
                        /\ UNCHANGED <<tool_result, m_args, m_pc>>
                   [] req.method = "tools/call" /\ ~name.some ->
                        /\ response' =
                              Some(error_response(req.id, InternalError, MissingToolName))
                        /\ h_pc' = "done"
                        /\ UNCHANGED <<tool_result, m_args, m_pc>>
                   [] req.method = "tools/call" /\ name.some /\ name.value = MultiCommit ->
                        /\ m_args' = ArgumentsOf(req.params)
                        /\ m_pc' = "start"
                        /\ h_pc' = "tool"
                        /\ UNCHANGED <<response, tool_result>>
                   [] req.method = "tools/call" /\ name.some /\ name.value # MultiCommit ->
                        /\ tool_result' = Some(Err(UnknownTool(name.value)))
                        /\ response' =
                              Some(ok_response(req.id,
                                               CallToolResult(Err(UnknownTool(name.value)))))
                        /\ h_pc' = "done"
                        /\ UNCHANGED <<m_args, m_pc>>
                   [] OTHER ->
                        /\ response' =
                              Some(error_response(req.id, InternalError,
                                                  MethodNotFound(req.method)))
                        /\ h_pc' = "done"
                        /\ UNCHANGED <<tool_result, m_args, m_pc>>
    /\ UNCHANGED <<meta_dir, m_idx, m_results, m_committed>>
    /\ UNCHANGED <<gvars, bvars, rvars, qvars, svars>>

\* tool_git_multi_commit up to its for loop
MultiCommitStart ==
    /\ m_pc = "start"
    /\ IF ~meta_dir.some
       THEN /\ tool_result' = Some(Err(NoMetaRepository))
            /\ m_pc' = "returned"
       ELSE IF ~AsArray(m_args.commits).some
       THEN /\ tool_result' = Some(Err(MissingCommits))
            /\ m_pc' = "returned"
       ELSE /\ m_pc' = "loop"
            /\ UNCHANGED tool_result
    /\ m_idx' = 1
    /\ m_results' = <<>>
    /\ UNCHANGED <<meta_dir, request, response, h_pc, m_args, m_committed>>
    /\ UNCHANGED <<gvars, bvars, rvars, qvars, svars>>

\* git -C <path> commit -m <message>: it succeeds only where there is
\* something to commit
CommitOutcomes(r) ==
    IF r.git /\ r.changes = "tracked"
    THEN {"success", "failure", "spawn_error"}
    ELSE {"failure", "spawn_error"}

\* the working copy after the commit
AfterCommit(r, outcome) ==
    IF outcome = "success" THEN [AfterCommand(r, "commit") EXCEPT !.changes = "none"] ELSE r

\* the CommitResult pushed for an entry
CommitResult(project, message, success, error) ==
    [project |-> project, success |-> success, message |-> message, error |-> error]

\* the JSON text returned after the loop
CommitSummary(rs) ==
    [results |-> rs,
     total |-> Len(rs),
     succeeded |-> Len(SelectSeq(rs, LAMBDA r : r.success)),
     failed |-> Len(SelectSeq(rs, LAMBDA r : ~r.success))]

\* one turn of the for loop over commits
MultiCommitIter ==
    /\ m_pc = "loop"
    /\ m_idx <= Len(AsArray(m_args.commits).value)
    /\ LET commit_obj == AsArray(m_args.commits).value[m_idx]
           project == AsStr(commit_obj.project)
           message == AsStr(commit_obj.message)
       IN  IF ~project.some
           THEN /\ tool_result' = Some(Err(MissingProject))
                /\ m_pc' = "returned"
                /\ UNCHANGED <<repos, m_idx, m_results, m_committed>>
           ELSE IF ~message.some
           THEN /\ tool_result' = Some(Err(MissingMessage))
                /\ m_pc' = "returned"
                /\ UNCHANGED <<repos, m_idx, m_results, m_committed>>
           ELSE IF ~repos[project.value].exists
           THEN /\ m_results' = Append(m_results,
                                       CommitResult(project.value, message.value, FALSE,
                                                    Some("Project path does not exist")))
                /\ m_idx' = m_idx + 1
                /\ UNCHANGED <<repos, tool_result, m_pc, m_committed>>
           ELSE \E outcome \in CommitOutcomes(repos[project.value]) :
                /\ repos' = [repos EXCEPT
                                ![project.value] = AfterCommit(repos[project.value], outcome)]
                /\ m_committed' = Append(m_committed, project.value)
                /\ m_results' = Append(m_results,
                                       CommitResult(project.value, message.value,
                                                    outcome = "success",
                                                    IF outcome = "success"
                                                    THEN NoValue ELSE Some(outcome)))
                /\ m_idx' = m_idx + 1
                /\ UNCHANGED <<tool_result, m_pc>>
    /\ UNCHANGED <<meta_dir, request, response, h_pc, m_args>>
    /\ UNCHANGED <<w_projects, store, now, b_pc, atomic, b_tag, filtered, b_idx,
                   results, has_failure, snapshot_name, b_ret, trace>>
    /\ UNCHANGED <<gvars, rvars, qvars, svars>>

\* the loop is over: the summary is returned
MultiCommitReturn ==
    /\ m_pc = "loop"
    /\ m_idx > Len(AsArray(m_args.commits).value)
    /\ tool_result' = Some(Ok(CommitSummary(m_results)))
    /\ m_pc' = "returned"
    /\ UNCHANGED <<meta_dir, request, response, h_pc, m_args, m_idx, m_results, m_committed>>
    /\ UNCHANGED <<gvars, bvars, rvars, qvars, svars>>

\* handle_call_tool and handle_request answer once the tool has returned
CallToolReturn ==
    /\ h_pc = "tool"
    /\ m_pc = "returned"
    /\ response' = Some(ok_response(request.value.id, CallToolResult(tool_result.value)))
    /\ h_pc' = "done"
    /\ UNCHANGED <<meta_dir, request, tool_result, m_args, m_pc, m_idx, m_results,
                   m_committed>>
    /\ UNCHANGED <<gvars, bvars, rvars, qvars, svars>>

\* a server started inside a meta repository or outside any; under the meta
\* directory each project path is missing or a working copy, with or without
\* edits to commit
InitServer ==
    /\ meta_dir \in {NoValue, Some("meta")}
    /\ request = NoValue
    /\ response = NoValue
    /\ h_pc = "idle"
    /\ tool_result = NoValue
    /\ m_args = [commits |-> NoValue]
    /\ m_pc = "idle"
    /\ m_idx = 1
    /\ m_results = <<>>
    /\ m_committed = <<>>
    /\ w_projects = <<>>
    /\ \E rs \in [1..CommitProjects -> {Missing, WorkingCopy("none"), WorkingCopy("tracked")}] :
          repos = [p \in Dot..CommitProjects |->
                      IF p = Dot THEN WorkingCopy("tracked") ELSE rs[p]]
    /\ store = EmptyMap
    /\ now = 0
    /\ b_pc = "idle"
    /\ atomic = FALSE
    /\ b_tag = None
    /\ filtered = <<>>
    /\ b_idx = 1
    /\ results = <<>>
    /\ has_failure = FALSE
    /\ snapshot_name = None
    /\ b_ret = None
    /\ trace = <<>>
    /\ r_pc = "idle"
    /\ r_force = FALSE
    /\ r_projects = <<>>
    /\ r_idx = 1
    /\ restored = <<>>
    /\ failed = <<>>
    /\ r_ret = None
    /\ r_before = EmptyMap
    /\ c_ret = None
    /\ QueryIdle
    /\ GraphIdle

NextServer ==
    HandleRequest \/ MultiCommitStart \/ MultiCommitIter \/ MultiCommitReturn \/ CallToolReturn

SpecServer == InitServer /\ [][NextServer]_vars

(***************************************************************************)
(* Properties of the server.                                               *)
(***************************************************************************)
\* the message holds the word
Mentions(message, word) == Find(message, word) # 0

CommitsWord == <<"c", "o", "m", "m", "i", "t", "s">>
ProjectWord == <<"p", "r", "o", "j", "e", "c", "t">>
MessageWord == <<"m", "e", "s", "s", "a", "g", "e">>

\* the tool returned an error whose message holds the word
FailedMentioning(word) ==
    /\ tool_result.some
    /\ tool_result.value.tag = "Err"
    /\ Mentions(tool_result.value.error, word)

\* the entries before the i-th are all well formed
WellFormedBefore(items, i) ==
    \A j \in 1..(i - 1) : AsStr(items[j].project).some /\ AsStr(items[j].message).some

\* C22: in every server state, with a meta repository found or not, a call
\* of tool_git_multi_commit whose "commits" is absent or not an array returns
\* an error that mentions "commits", and the first entry that lacks "project"
\* (or, having a project, lacks "message") makes the call return an error
\* that mentions "project" (or "message").
MultiCommitErrorNamesTheArgument ==
    m_pc = "returned" =>
        LET commits == AsArray(m_args.commits)
        IN  /\ ~commits.some => FailedMentioning(CommitsWord)
            /\ commits.some =>
                  \A i \in 1..Len(commits.value) :
                      WellFormedBefore(commits.value, i) =>
                          /\ ~commits.value[i].project.some => FailedMentioning(ProjectWord)
                          /\ (AsStr(commits.value[i].project).some
                                /\ ~commits.value[i].message.some)
                                => FailedMentioning(MessageWord)

\* C29: when tool_git_multi_commit returns the error of an entry that lacks
\* "project" or "message", git commit has been executed for no entry of the
\* call.
NoCommitBeforeEntryError ==
    (/\ m_pc = "returned"
     /\ tool_result.value.tag = "Err"
     /\ tool_result.value.error \in {MissingProject, MissingMessage})
        => m_committed = <<>>

\* C23: every response of handle_request carries jsonrpc "2.0", the id of
\* the request and exactly one of result and error; a tool that fails under
\* tools/call is answered with a result whose isError is true, not with a
\* JSON-RPC error.
ResponseIsWellFormed ==
    h_pc = "done" =>
        /\ response.value.jsonrpc = "2.0"
        /\ response.value.id = request.value.id
        /\ response.value.result.some # response.value.error.some
        /\ (tool_result.some /\ tool_result.value.tag = "Err") =>
              /\ response.value.result.some
              /\ ~response.value.error.some
              /\ response.value.result.value.is_error = Some(TRUE)

\* a call of meta_git_multi_commit that failed has been answered
FailedToolAnswered ==
    /\ h_pc = "done"
    /\ request.value.id.some
    /\ AsStr(request.value.params.name) = Some(MultiCommit)
    /\ tool_result.some
    /\ tool_result.value.tag = "Err"

(***************************************************************************)
(* topological_sort over tagged projects.                                  *)
(***************************************************************************)
TopoEdges == 2

\* project lists whose projects carry the tag or not
InitTopo ==
    /\ g_projects \in UNION {ProjectLists(SUBSET {Tag}, k, TopoEdges) : k \in 0..MaxProjects}
    /\ graph = EmptyGraph
    /\ g_pc = "input"
    /\ project_name = None
    /\ direct_dependents = <<>>
    /\ transitive_dependents = <<>>
    /\ visited = {}
    /\ queue = <<>>
    /\ total_affected = 0
    /\ tag_filter = None
    /\ in_degree = EmptyMap
    /\ ts_queue = <<>>
    /\ result = <<>>
    /\ BatchIdle
    /\ ServerIdle

NextTopo == BuildGraph \/ TopoStart \/ TopoStep \/ TopoReturn

SpecTopo == InitTopo /\ [][NextTopo]_vars

\* the while loop of topological_sort run to its end, in a build whose
\* subtraction wraps
RECURSIVE KahnLoop(_, _, _, _, _)
KahnLoop(g, filter, deg, q, res) ==
    IF q = <<>> THEN res
    ELSE LET current == Head(q)
             r == DecrementAll(deg, Tail(q), GetOrEmpty(g.reverse_edges, current), FALSE)
         IN  KahnLoop(g, filter, r.in_degree, r.queue,
                      IF Include(g, filter, current) THEN Append(res, current) ELSE res)

\* topological_sort(graph, tag_filter), the seeds queued in one of the orders
\* the HashMap may give
topological_sort(g, filter) ==
    KahnLoop(g, filter, InitialInDegree(g),
             CHOOSE seeds \in Orders({n \in DOMAIN g.nodes : IsSeed(InitialInDegree(g), n)}) :
                 TRUE,
             <<>>)

\* the projects of a list that carry the tag
Tagged(g, names, t) == {n \in Range(names) : n \in DOMAIN g.nodes /\ t \in g.nodes[n].tags}

\* C25: for every graph and tag t, the set topological_sort(graph, Some(t))
\* emits is the set of the projects topological_sort(graph, None) emits that
\* carry the tag t.
FilterOnlyAtEmission ==
    (g_pc = "topo_done" /\ tag_filter = Tag) =>
        Range(result) = Tagged(graph, topological_sort(graph, None), Tag)

\* a filtered sort that emitted some projects and left out others
FilteredSortLeftSomeOut ==
    /\ g_pc = "topo_done"
    /\ tag_filter = Tag
    /\ Len(result) >= 2
    /\ Range(result) # Range(topological_sort(graph, None))

(***************************************************************************)
(* Order of the snapshot, the commands and the rollback of a batch.        *)
(***************************************************************************)
\* the positions of the calls of that kind in the history
CallsAt(kind) == {i \in 1..Len(trace) : trace[i].call = kind}

\* C26: with atomic = true the snapshot before the batch is attempted before
\* the command runs in any project; the restore of the rollback is invoked
\* with force = true and the name of that snapshot, only after the loop has
\* stopped and only if has_failure is set; a batch without failure invokes
\* no restore and returns rolled_back = false.
SnapshotThenCommandsThenRollback ==
    atomic =>
        /\ \A i \in CallsAt("command") : \E j \in CallsAt("snapshot_create") : j < i
        /\ \A i \in CallsAt("snapshot_restore") :
              /\ trace[i].force
              /\ trace[i].name = snapshot_name
              /\ has_failure
              /\ b_pc \in {"restoring", "done"}
              /\ \A j \in CallsAt("command") : j < i
        /\ (b_pc = "done" /\ ~has_failure) =>
              /\ CallsAt("snapshot_restore") = {}
              /\ b_ret.tag = "Ok"
              /\ ~b_ret.value.rolled_back

\* an atomic batch ran the command in two projects and then rolled back
RolledBackAfterSecondCommand ==
    /\ atomic
    /\ b_pc = "done"
    /\ Len(Calls("command")) = 2
    /\ Len(Calls("snapshot_restore")) = 1
    /\ trace[1].call = "snapshot_create"

\* the projects of the manifest the tag filter leaves out
Unfiltered == {i \in 1..Len(w_projects) : b_tag \notin w_projects[i].tags}

\* C28: when an atomic batch with a tag filter fails, the rollback touches
\* only the projects the filter selected: a project without the tag sees no
\* stash, checkout or reset and keeps its branch, its commit and its
\* uncommitted changes.
RollbackTouchesOnlyFiltered ==
    (/\ atomic
     /\ b_tag = Tag
     /\ Calls("snapshot_restore") # <<>>)
        => \A i \in Unfiltered : repos[w_projects[i].path] = r_before[w_projects[i].path]

(***************************************************************************)
(* Order of the conjuncts of a query.                                      *)
(***************************************************************************)
\* the conjuncts over the fields matches_query knows
RecognizedConjuncts == {DirtyTrue, DirtyFalse, TagBackend, BranchMain}

\* the query string "Y AND X" of the query "X AND Y"
Swapped(parts) == Join(<<parts[2], parts[1]>>, <<UpperAnd>>)

\* C27: for every repo state and every pair of well-formed conjuncts X and Y
\* over recognized fields, the queries "X AND Y" and "Y AND X" give the same
\* result through parse_query and matches_query.
ConjunctOrderIsIrrelevant ==
    (/\ q_pc # "idle"
     /\ Len(q_conjuncts) = 2
     /\ Range(q_conjuncts) \subseteq RecognizedConjuncts
     /\ query_str = Join(q_conjuncts, <<UpperAnd>>))
        => \A S \in RepoStates :
              matches_query(S, conditions) = matches_query(S, parse_query(Swapped(q_conjuncts)))

====
